---------------------------- MODULE Spec2Model ----------------------------
(***************************************************************************)
(* UnstorageClient (src/src/lib.rs): a stateless HTTP client for the       *)
(* unstorage key-value protocol.  Every public method builds one request,  *)
(* merges default and per-call headers into it, sends it, and interprets   *)
(* the response.                                                           *)
(*                                                                         *)
(* Strings that the code only copies or concatenates (keys, URLs, header   *)
(* names and values) are TLA+ strings.  Bodies, which the code encodes and *)
(* parses, are sequences of one-character strings.  Option<T> is a         *)
(* sequence of length 0 (None) or 1 (Some).                                *)
(***************************************************************************)
EXTENDS Integers, Sequences, FiniteSets, TLC

VARIABLES
    base_url,   \* UnstorageClient.base_url
    headers,    \* UnstorageClient.headers (the default header map)
    new_args,   \* the arguments new() was called with (never written again)
    calls,      \* per task: the method call it is running, if any
    store,      \* the remote server's key -> body mapping
    hist        \* per key: the last write-type call that returned

vars == <<base_url, headers, new_args, calls, store, hist>>

----------------------------------------------------------------------------
(* Bounds of the model.                                                    *)

\* ttl values passed in TransactionOptions range over 0..MaxTtl
MaxTtl == 11
\* age values of the TestData records that are written range over 0..MaxAge
MaxAge == 1

----------------------------------------------------------------------------
(* Option<T>, HashMap<String, String>                                      *)

None == <<>>
Some(x) == <<x>>
IsSome(o) == Len(o) = 1
IsNone(o) == Len(o) = 0
Unwrap(o) == o[1]

EmptyMap == [x \in {} |-> ""]

\* HashMap::insert: the new value replaces an entry with an equal key.
MapInsert(m, k, v) ==
    [x \in DOMAIN m \cup {k} |-> IF x = k THEN v ELSE m[x]]

\* HashMap::extend: every entry of e is inserted, replacing equal keys.
MapExtend(m, e) ==
    [x \in DOMAIN m \cup DOMAIN e |-> IF x \in DOMAIN e THEN e[x] ELSE m[x]]

\* The orders in which iterating a HashMap with key set S can yield its
\* keys: the order depends on the map's random hash seed.
RECURSIVE IterationOrders(_)
IterationOrders(S) ==
    IF S = {} THEN {<<>>}
    ELSE UNION {{<<x>> \o o : o \in IterationOrders(S \ {x})} : x \in S}

----------------------------------------------------------------------------
(* Integer formatting: u64::to_string                                      *)

Digit == <<"0", "1", "2", "3", "4", "5", "6", "7", "8", "9">>

RECURSIVE u64_to_string(_)
u64_to_string(n) ==
    IF n < 10 THEN Digit[n + 1]
    ELSE u64_to_string(n \div 10) \o Digit[(n % 10) + 1]

----------------------------------------------------------------------------
(* http::HeaderName::from_bytes and str::parse::<HeaderValue>              *)

InvalidHeader == "<invalid>"

\* Header names the model draws from.  from_bytes accepts a name made of
\* HTTP token characters and normalises it to lower case; any other name
\* (here: one holding a space, and the empty name) is an error.
HeaderNameFromBytes(key) ==
    CASE key = "X-Ttl" -> "x-ttl"
      [] key = "Accept" -> "accept"
      [] key = "Content-Type" -> "content-type"
      [] key = "Authorization" -> "authorization"
      [] key \in {"x-ttl", "accept", "content-type", "authorization"} -> key
      [] OTHER -> InvalidHeader

\* Header values the model draws from: a value holding a line feed is
\* rejected, printable ASCII is accepted as it is.
HeaderValueParse(value) ==
    IF value \in {"bad\nvalue"} THEN InvalidHeader ELSE value

----------------------------------------------------------------------------
(* serde_json::to_string and serde_json::from_str, on the types the model  *)
(* stores: String, u32, f64, the tests' TestData {name, age}, Vec<String>, *)
(* and a map whose keys are not strings (which serde_json cannot write).   *)

JString(s) == [t |-> "String", s |-> s]
JU32(n) == [t |-> "u32", n |-> n]
\* an f64: NaN, or the whole number n
JF64(nan, n) == [t |-> "f64", nan |-> nan, n |-> n]
JTestData(name, age) == [t |-> "TestData", name |-> name, age |-> age]
JVec(v) == [t |-> "Vec<String>", v |-> v]
JTupleKeyMap == [t |-> "HashMap<(u8,u8),u8>"]

Chars_null == <<"n", "u", "l", "l">>
Chars_name == <<"\"", "n", "a", "m", "e", "\"", ":">>
Chars_age == <<"\"", "a", "g", "e", "\"", ":">>

RECURSIVE DecChars(_)
DecChars(n) ==
    IF n < 10 THEN <<Digit[n + 1]>>
    ELSE Append(DecChars(n \div 10), Digit[(n % 10) + 1])

\* A quote and a backslash are written with a backslash before them.
RECURSIVE EscapeChars(_)
EscapeChars(s) ==
    IF s = <<>> THEN <<>>
    ELSE (IF Head(s) \in {"\"", "\\"} THEN <<"\\", Head(s)>> ELSE <<Head(s)>>)
         \o EscapeChars(Tail(s))

QuoteChars(s) == <<"\"">> \o EscapeChars(s) \o <<"\"">>

RECURSIVE JoinQuoted(_)
JoinQuoted(v) ==
    IF v = <<>> THEN <<>>
    ELSE IF Len(v) = 1 THEN QuoteChars(v[1])
    ELSE QuoteChars(v[1]) \o <<",">> \o JoinQuoted(Tail(v))

\* serde_json::to_string: [ok, text]
to_string(value) ==
    CASE value.t = "String" -> [ok |-> TRUE, text |-> QuoteChars(value.s)]
      [] value.t = "u32" -> [ok |-> TRUE, text |-> DecChars(value.n)]
      [] value.t = "f64" ->
            [ok |-> TRUE,
             text |-> IF value.nan THEN Chars_null
                      ELSE DecChars(value.n) \o <<".", "0">>]
      [] value.t = "TestData" ->
            [ok |-> TRUE,
             text |-> <<"{">> \o Chars_name \o QuoteChars(value.name) \o <<",">>
                      \o Chars_age \o DecChars(value.age) \o <<"}">>]
      [] value.t = "Vec<String>" ->
            [ok |-> TRUE, text |-> <<"[">> \o JoinQuoted(value.v) \o <<"]">>]
      [] OTHER -> [ok |-> FALSE, text |-> <<>>]

\* A parser step returns [ok, val, next]: the value read and the position
\* after it.
ParseFail == [ok |-> FALSE, val |-> <<>>, next |-> 0]
ParseOk(v, i) == [ok |-> TRUE, val |-> v, next |-> i]

IsDigit(ch) == \E d \in 1..10 : Digit[d] = ch
DigitValue(ch) == (CHOOSE d \in 1..10 : Digit[d] = ch) - 1

Expect(s, i, lit) ==
    /\ i + Len(lit) - 1 <= Len(s)
    /\ SubSeq(s, i, i + Len(lit) - 1) = lit

RECURSIVE ScanDigits(_, _, _)
ScanDigits(s, i, acc) ==
    IF i <= Len(s) /\ IsDigit(s[i])
    THEN ScanDigits(s, i + 1, acc * 10 + DigitValue(s[i]))
    ELSE ParseOk(acc, i)

\* JSON integer: "0", or a non-zero digit followed by digits.
ParseUInt(s, i) ==
    IF i > Len(s) \/ ~IsDigit(s[i]) THEN ParseFail
    ELSE IF s[i] = "0" THEN ParseOk(0, i + 1)
    ELSE ScanDigits(s, i, 0)

\* JSON number read as f64: an integer, then optionally ".0".
ParseF64(s, i) ==
    LET w == ParseUInt(s, i) IN
    IF ~w.ok THEN ParseFail
    ELSE IF Expect(s, w.next, <<".", "0">>) THEN ParseOk(w.val, w.next + 2)
    ELSE w

RECURSIVE ScanString(_, _, _)
ScanString(s, i, acc) ==
    IF i > Len(s) THEN ParseFail
    ELSE IF s[i] = "\"" THEN ParseOk(acc, i + 1)
    ELSE IF s[i] = "\\"
         THEN IF i + 1 <= Len(s) /\ s[i + 1] \in {"\"", "\\"}
              THEN ScanString(s, i + 2, Append(acc, s[i + 1]))
              ELSE ParseFail
    ELSE ScanString(s, i + 1, Append(acc, s[i]))

ParseString(s, i) ==
    IF i <= Len(s) /\ s[i] = "\"" THEN ScanString(s, i + 1, <<>>) ELSE ParseFail

ParseTestData(s, i) ==
    IF ~Expect(s, i, <<"{">> \o Chars_name) THEN ParseFail
    ELSE LET n == ParseString(s, i + 1 + Len(Chars_name)) IN
         IF ~n.ok \/ ~Expect(s, n.next, <<",">> \o Chars_age) THEN ParseFail
         ELSE LET a == ParseUInt(s, n.next + 1 + Len(Chars_age)) IN
              IF ~a.ok \/ ~Expect(s, a.next, <<"}">>) THEN ParseFail
              ELSE ParseOk(JTestData(n.val, a.val), a.next + 1)

RECURSIVE ScanElements(_, _, _)
ScanElements(s, i, acc) ==
    LET e == ParseString(s, i) IN
    IF ~e.ok THEN ParseFail
    ELSE IF Expect(s, e.next, <<"]">>) THEN ParseOk(Append(acc, e.val), e.next + 1)
    ELSE IF Expect(s, e.next, <<",">>) THEN ScanElements(s, e.next + 1, Append(acc, e.val))
    ELSE ParseFail

ParseVec(s, i) ==
    IF ~Expect(s, i, <<"[">>) THEN ParseFail
    ELSE IF Expect(s, i + 1, <<"]">>) THEN ParseOk(<<>>, i + 2)
    ELSE ScanElements(s, i + 1, <<>>)

\* serde_json::from_str::<T>: [ok, val]; characters after the value are an
\* error.
from_str(T, s) ==
    LET r == CASE T = "String" -> ParseString(s, 1)
               [] T = "u32" -> ParseUInt(s, 1)
               [] T = "f64" -> ParseF64(s, 1)
               [] T = "TestData" -> ParseTestData(s, 1)
               [] T = "Vec<String>" -> ParseVec(s, 1)
               [] OTHER -> ParseFail
    IN  IF ~r.ok \/ r.next # Len(s) + 1 THEN [ok |-> FALSE, val |-> <<>>]
        ELSE [ok |-> TRUE,
              val |-> CASE T = "String" -> JString(r.val)
                        [] T = "u32" -> JU32(r.val)
                        [] T = "f64" -> JF64(FALSE, r.val)
                        [] T = "Vec<String>" -> JVec(r.val)
                        [] OTHER -> r.val]

\* AsyncReadResponseExt::text: the body's bytes decoded as UTF-8, a byte
\* that is not UTF-8 replaced by U+FFFD.
ResponseText(body) ==
    [i \in 1..Len(body) |-> IF body[i] = "\\xFF" THEN "\\uFFFD" ELSE body[i]]

----------------------------------------------------------------------------
(* Header resolution                                                       *)

TransactionOptions(hdrs, ttl) == [headers |-> hdrs, ttl |-> ttl]

\* get_headers: the default map, then x-ttl, then the transaction's
\* headers.  topts is an Option<&TransactionOptions>.
get_headers(topts) ==
    IF IsNone(topts) THEN headers
    ELSE LET t == Unwrap(topts)
             with_ttl == IF IsSome(t.ttl)
                         THEN MapInsert(headers, "x-ttl", u64_to_string(Unwrap(t.ttl)))
                         ELSE headers
         IN  IF IsSome(t.headers)
             THEN MapExtend(with_ttl, Unwrap(t.headers))
             ELSE with_ttl

\* The loop shared by add_headers_to_request and get_item_raw: every entry
\* of the map `hdrs`, visited in the order `ord`, is converted and inserted
\* in the request's HeaderMap `req`; the first entry that does not convert
\* ends the call with an error.  HeaderMap::insert replaces the value the
\* map holds for the (lower-cased) name.
RECURSIVE InsertHeaders(_, _, _)
InsertHeaders(req, hdrs, ord) ==
    IF ord = <<>> THEN [ok |-> TRUE, headers |-> req]
    ELSE LET key == Head(ord)
             header_name == HeaderNameFromBytes(key)
             value == HeaderValueParse(hdrs[key])
         IN  IF header_name = InvalidHeader \/ value = InvalidHeader
             THEN [ok |-> FALSE, headers |-> req]
             ELSE InsertHeaders(MapInsert(req, header_name, value), hdrs, Tail(ord))

\* add_headers_to_request as it would be if an entry that does not convert
\* were skipped instead of ending the call
add_headers_skip_invalid(req, topts, ord) ==
    LET hdrs == get_headers(topts)
        converts(k) == /\ HeaderNameFromBytes(k) # InvalidHeader
                       /\ HeaderValueParse(hdrs[k]) # InvalidHeader
    IN  InsertHeaders(req, hdrs, SelectSeq(ord, converts))

add_headers_to_request(req, topts, ord) ==
    InsertHeaders(req, get_headers(topts), ord)

\* get_item_raw's own map: get_headers, then accept.
get_item_raw_headers(topts) ==
    MapInsert(get_headers(topts), "accept", "application/octet-stream")

----------------------------------------------------------------------------
(* Requests: what each method hands to send_async, or the error it returns *)
(* before sending.                                                         *)

NoRequest == [method |-> "", url |-> "", headers |-> EmptyMap, body |-> <<>>]

Built(h, method, url, body) ==
    IF h.ok
    THEN [ok |-> TRUE, err |-> "",
          req |-> [method |-> method, url |-> url, headers |-> h.headers, body |-> body]]
    ELSE [ok |-> FALSE, err |-> "header", req |-> NoRequest]

\* format!("{}/{}", self.base_url, key)
ItemUrl(key) == base_url \o "/" \o key
\* format!("{}/{}:", self.base_url, base)
PrefixUrl(base) == base_url \o "/" \o base \o ":"

\* Request::put(url).header("Content-Type", v): the builder stores the
\* name in lower case.
ContentType(v) == ("content-type" :> v)

has_item_request(key, topts, ord) ==
    Built(add_headers_to_request(EmptyMap, topts, ord), "HEAD", ItemUrl(key), <<>>)

get_item_request(key, topts, ord) ==
    Built(add_headers_to_request(EmptyMap, topts, ord), "GET", ItemUrl(key), <<>>)

get_item_json_request(key, topts, ord) ==
    Built(add_headers_to_request(EmptyMap, topts, ord), "GET", ItemUrl(key), <<>>)

get_item_raw_request(key, topts, ord) ==
    Built(InsertHeaders(EmptyMap, get_item_raw_headers(topts), ord),
          "GET", ItemUrl(key), <<>>)

get_meta_request(key, topts, ord) ==
    Built(add_headers_to_request(EmptyMap, topts, ord), "HEAD", ItemUrl(key), <<>>)

set_item_request(key, value, topts, ord) ==
    Built(add_headers_to_request(ContentType("application/json"), topts, ord),
          "PUT", ItemUrl(key), value)

set_item_raw_request(key, value, topts, ord) ==
    Built(add_headers_to_request(ContentType("application/octet-stream"), topts, ord),
          "PUT", ItemUrl(key), value)

set_item_json_request(key, value, topts, ord) ==
    LET json_body == to_string(value) IN
    IF ~json_body.ok THEN [ok |-> FALSE, err |-> "encode", req |-> NoRequest]
    ELSE Built(add_headers_to_request(ContentType("application/json"), topts, ord),
               "PUT", ItemUrl(key), json_body.text)

remove_item_request(key, topts, ord) ==
    Built(add_headers_to_request(EmptyMap, topts, ord), "DELETE", ItemUrl(key), <<>>)

get_keys_request(base, topts, ord) ==
    Built(add_headers_to_request(EmptyMap, topts, ord), "GET", PrefixUrl(base), <<>>)

clear_request(base, topts, ord) ==
    Built(add_headers_to_request(EmptyMap, topts, ord), "DELETE", PrefixUrl(base), <<>>)

----------------------------------------------------------------------------
(* Results: what each method returns for a response.  `read_ok` is whether *)
(* reading the body (text(), bytes()) succeeds.                            *)

Unit == "()"
Pending == [tag |-> "none", val |-> <<>>]
Ok(v) == [tag |-> "Ok", val |-> v]
Err(kind) == [tag |-> "Err", val |-> kind]

Returned(result, body_read) == [result |-> result, body_read |-> body_read]

\* StatusCode::is_success
is_success(status) == status >= 200 /\ status < 300

\* DateTime::parse_from_rfc2822, on the dates the model's server sends
ParseRfc2822(s) ==
    IF s = "Mon, 01 Jan 2024 00:00:00 GMT" THEN Some(1704067200) ELSE None

\* str::parse::<u64>, on the values the model's server sends
ParseU64(s) ==
    IF \E n \in 0..99 : u64_to_string(n) = s
    THEN Some(CHOOSE n \in 0..99 : u64_to_string(n) = s)
    ELSE None

HeaderGet(hdrs, name) == IF name \in DOMAIN hdrs THEN Some(hdrs[name]) ELSE None

has_item_response(resp) ==
    Returned(Ok(is_success(resp.status)), FALSE)

\* get_item as it would be if a status that is not 2xx were an error
get_item_response_strict(resp, read_ok) ==
    IF is_success(resp.status)
    THEN IF read_ok THEN Returned(Ok(Some(ResponseText(resp.body))), TRUE)
         ELSE Returned(Err("transport"), TRUE)
    ELSE Returned(Err("status"), FALSE)

get_item_response(resp, read_ok) ==
    IF is_success(resp.status)
    THEN IF read_ok THEN Returned(Ok(Some(ResponseText(resp.body))), TRUE)
         ELSE Returned(Err("transport"), TRUE)
    ELSE Returned(Ok(None), FALSE)

get_item_json_response(T, resp, read_ok) ==
    IF is_success(resp.status)
    THEN IF read_ok
         THEN LET deserialized == from_str(T, ResponseText(resp.body)) IN
              IF deserialized.ok THEN Returned(Ok(Some(deserialized.val)), TRUE)
              ELSE Returned(Err("decode"), TRUE)
         ELSE Returned(Err("transport"), TRUE)
    ELSE Returned(Ok(None), FALSE)

get_item_raw_response(resp, read_ok) ==
    IF is_success(resp.status)
    THEN IF read_ok THEN Returned(Ok(Some(resp.body)), TRUE)
         ELSE Returned(Err("transport"), TRUE)
    ELSE Returned(Ok(None), FALSE)

get_meta_response(resp) ==
    IF is_success(resp.status)
    THEN LET lm == HeaderGet(resp.headers, "last-modified")
             xt == HeaderGet(resp.headers, "x-ttl")
             mtime == IF IsSome(lm) THEN ParseRfc2822(Unwrap(lm)) ELSE None
             ttl == IF IsSome(xt) THEN ParseU64(Unwrap(xt)) ELSE None
         IN  Returned(Ok(Some([mtime |-> mtime, ttl |-> ttl])), FALSE)
    ELSE Returned(Ok(None), FALSE)

\* set_item, set_item_raw, set_item_json, remove_item, clear: the response
\* is dropped.
set_item_response(resp) == Returned(Ok(Unit), FALSE)
set_item_raw_response(resp) == Returned(Ok(Unit), FALSE)
set_item_json_response(resp) == Returned(Ok(Unit), FALSE)
remove_item_response(resp) == Returned(Ok(Unit), FALSE)
clear_response(resp) == Returned(Ok(Unit), FALSE)

get_keys_response(resp, read_ok) ==
    IF is_success(resp.status)
    THEN IF read_ok
         THEN LET keys == from_str("Vec<String>", ResponseText(resp.body)) IN
              IF keys.ok THEN Returned(Ok(Some(keys.val.v)), TRUE)
              ELSE Returned(Err("decode"), TRUE)
         ELSE Returned(Err("transport"), TRUE)
    ELSE Returned(Ok(None), FALSE)

\* The continuation of the call `call` after send_async returned `resp`.
Response(call, resp, read_ok) ==
    CASE call.op = "has_item" -> has_item_response(resp)
      [] call.op = "get_item" -> get_item_response(resp, read_ok)
      [] call.op = "get_item_json" -> get_item_json_response(call.arg, resp, read_ok)
      [] call.op = "get_item_raw" -> get_item_raw_response(resp, read_ok)
      [] call.op = "get_meta" -> get_meta_response(resp)
      [] call.op = "set_item" -> set_item_response(resp)
      [] call.op = "set_item_raw" -> set_item_raw_response(resp)
      [] call.op = "set_item_json" -> set_item_json_response(resp)
      [] call.op = "remove_item" -> remove_item_response(resp)
      [] call.op = "get_keys" -> get_keys_response(resp, read_ok)
      [] call.op = "clear" -> clear_response(resp)

----------------------------------------------------------------------------
(* The remote server: a key-value store behind HTTP, as the protocol       *)
(* describes it.  It answers a request either by serving it or with an     *)
(* error status that leaves the store as it was.                           *)

AllKeys == {"ns:a"}
AllBases == {"ns"}

\* the keys of a namespace, in the order the server lists them
KeysUnder(base) == IF base = "ns" THEN <<"ns:a">> ELSE <<>>

KeyChars(k) == IF k = "ns:a" THEN <<"n", "s", ":", "a">> ELSE <<>>

Reply(status, hdrs, body, st) ==
    [status |-> status, headers |-> hdrs, body |-> body, store |-> st]

ServerMeta ==
    { EmptyMap,
      ("last-modified" :> "Mon, 01 Jan 2024 00:00:00 GMT") @@ ("x-ttl" :> "60"),
      ("last-modified" :> "yesterday") @@ ("x-ttl" :> "soon") }

RECURSIVE ListedKeys(_, _)
ListedKeys(ks, st) ==
    IF ks = <<>> THEN <<>>
    ELSE (IF IsSome(st[Head(ks)]) THEN <<KeyChars(Head(ks))>> ELSE <<>>)
         \o ListedKeys(Tail(ks), st)

ServerServes(req, st) ==
    LET ks == {k \in AllKeys : ItemUrl(k) = req.url}
        bs == {b \in AllBases : PrefixUrl(b) = req.url}
    IN  IF ks # {}
        THEN LET k == CHOOSE x \in ks : TRUE IN
             CASE req.method = "GET" ->
                    IF IsSome(st[k])
                    THEN {Reply(200, EmptyMap, Unwrap(st[k]), st)}
                    ELSE {Reply(404, EmptyMap, <<>>, st)}
               [] req.method = "HEAD" ->
                    IF IsSome(st[k])
                    THEN {Reply(200, m, <<>>, st) : m \in ServerMeta}
                    ELSE {Reply(404, EmptyMap, <<>>, st)}
               [] req.method = "PUT" ->
                    {Reply(200, EmptyMap, <<>>, [st EXCEPT ![k] = Some(req.body)])}
               [] req.method = "DELETE" ->
                    {Reply(204, EmptyMap, <<>>, [st EXCEPT ![k] = None])}
        ELSE IF bs # {}
        THEN LET b == CHOOSE x \in bs : TRUE
                 under == {KeysUnder(b)[i] : i \in 1..Len(KeysUnder(b))}
             IN
             CASE req.method = "GET" ->
                    {Reply(200, EmptyMap,
                           to_string(JVec(ListedKeys(KeysUnder(b), st))).text, st)}
               [] req.method = "DELETE" ->
                    {Reply(204, EmptyMap, <<>>,
                           [k \in AllKeys |-> IF k \in under THEN None ELSE st[k]])}
               [] OTHER -> {Reply(404, EmptyMap, <<>>, st)}
        ELSE {Reply(404, EmptyMap, <<>>, st)}

ServerRefuses(req, st) ==
    {Reply(500, EmptyMap, <<>>, st)}

ServerReplies(req, st) == ServerServes(req, st) \cup ServerRefuses(req, st)

----------------------------------------------------------------------------
(* Calls                                                                   *)

Callers == {"t1", "t2"}

Idle ==
    [pc |-> "idle", op |-> "", key |-> "", topts |-> None, arg |-> <<>>,
     request |-> NoRequest, sends |-> 0, status |-> 0, body_read |-> FALSE,
     result |-> Pending]

NoWrite == [kind |-> "none", arg |-> <<>>]

\* The history of the keys after `call` returned `result`: per key, the
\* last write-type call that returned, and whether it returned Ok(()).
HistAfter(call, result) ==
    LET entry == IF result.tag = "Ok" THEN [kind |-> call.op, arg |-> call.arg]
                 ELSE [kind |-> "unknown", arg |-> <<>>]
    IN  IF call.op \in {"set_item", "set_item_raw", "set_item_json", "remove_item"}
        THEN [hist EXCEPT ![call.key] = entry]
        ELSE IF call.op = "clear"
        THEN [k \in AllKeys |->
                IF \E i \in 1..Len(KeysUnder(call.key)) : KeysUnder(call.key)[i] = k
                THEN entry ELSE hist[k]]
        ELSE hist

\* A call as it would be if get_headers merged into self.headers instead of
\* a clone of it
Call_shared_headers(c, op, key, topts, arg, built) ==
    /\ calls[c].pc # "sent"
    /\ calls' = [calls EXCEPT ![c] =
          IF built.ok
          THEN [pc |-> "sent", op |-> op, key |-> key, topts |-> topts, arg |-> arg,
                request |-> built.req, sends |-> 1, status |-> 0,
                body_read |-> FALSE, result |-> Pending]
          ELSE [pc |-> "done", op |-> op, key |-> key, topts |-> topts, arg |-> arg,
                request |-> NoRequest, sends |-> 0, status |-> 0,
                body_read |-> FALSE, result |-> Err(built.err)]]
    /\ headers' = get_headers(topts)
    /\ UNCHANGED <<base_url, new_args, store, hist>>

\* Task c calls method `op`: the request `built` is sent, or the call
\* returns the error met while building it.
Call(c, op, key, topts, arg, built) ==
    /\ calls[c].pc # "sent"
    /\ calls' = [calls EXCEPT ![c] =
          IF built.ok
          THEN [pc |-> "sent", op |-> op, key |-> key, topts |-> topts, arg |-> arg,
                request |-> built.req, sends |-> 1, status |-> 0,
                body_read |-> FALSE, result |-> Pending]
          ELSE [pc |-> "done", op |-> op, key |-> key, topts |-> topts, arg |-> arg,
                request |-> NoRequest, sends |-> 0, status |-> 0,
                body_read |-> FALSE, result |-> Err(built.err)]]
    /\ UNCHANGED <<base_url, headers, new_args, store, hist>>

has_item(c, D) ==
    \E key \in D.keys, topts \in D.topts :
      \E ord \in IterationOrders(DOMAIN get_headers(topts)) :
        Call(c, "has_item", key, topts, <<>>, has_item_request(key, topts, ord))

get_item(c, D) ==
    \E key \in D.keys, topts \in D.topts :
      \E ord \in IterationOrders(DOMAIN get_headers(topts)) :
        Call(c, "get_item", key, topts, <<>>, get_item_request(key, topts, ord))

get_item_json(c, D) ==
    \E key \in D.keys, topts \in D.topts, T \in D.types :
      \E ord \in IterationOrders(DOMAIN get_headers(topts)) :
        Call(c, "get_item_json", key, topts, T, get_item_json_request(key, topts, ord))

get_item_raw(c, D) ==
    \E key \in D.keys, topts \in D.topts :
      \E ord \in IterationOrders(DOMAIN get_item_raw_headers(topts)) :
        Call(c, "get_item_raw", key, topts, <<>>, get_item_raw_request(key, topts, ord))

get_meta(c, D) ==
    \E key \in D.keys, topts \in D.topts :
      \E ord \in IterationOrders(DOMAIN get_headers(topts)) :
        Call(c, "get_meta", key, topts, <<>>, get_meta_request(key, topts, ord))

set_item(c, D) ==
    \E key \in D.keys, topts \in D.topts, value \in D.strs :
      \E ord \in IterationOrders(DOMAIN get_headers(topts)) :
        Call(c, "set_item", key, topts, value, set_item_request(key, value, topts, ord))

set_item_raw(c, D) ==
    \E key \in D.keys, topts \in D.topts, value \in D.raws :
      \E ord \in IterationOrders(DOMAIN get_headers(topts)) :
        Call(c, "set_item_raw", key, topts, value,
             set_item_raw_request(key, value, topts, ord))

set_item_json(c, D) ==
    \E key \in D.keys, topts \in D.topts, value \in D.jsons :
      \E ord \in IterationOrders(DOMAIN get_headers(topts)) :
        Call(c, "set_item_json", key, topts, value,
             set_item_json_request(key, value, topts, ord))

remove_item(c, D) ==
    \E key \in D.keys, topts \in D.topts :
      \E ord \in IterationOrders(DOMAIN get_headers(topts)) :
        Call(c, "remove_item", key, topts, <<>>, remove_item_request(key, topts, ord))

get_keys(c, D) ==
    \E base \in D.bases, topts \in D.topts :
      \E ord \in IterationOrders(DOMAIN get_headers(topts)) :
        Call(c, "get_keys", base, topts, <<>>, get_keys_request(base, topts, ord))

clear(c, D) ==
    \E base \in D.bases, topts \in D.topts :
      \E ord \in IterationOrders(DOMAIN get_headers(topts)) :
        Call(c, "clear", base, topts, <<>>, clear_request(base, topts, ord))

\* send_async returns a response: the server has answered the request, and
\* the method interprets the answer and returns.
Respond(c, D) ==
    /\ calls[c].pc = "sent"
    /\ \E resp \in ServerReplies(calls[c].request, store), read_ok \in BOOLEAN :
         LET ret == Response(calls[c], resp, read_ok) IN
         /\ calls' = [calls EXCEPT ![c] =
               [@ EXCEPT !.pc = "done", !.status = resp.status,
                         !.body_read = ret.body_read, !.result = ret.result]]
         /\ store' = resp.store
         /\ hist' = IF D.history THEN HistAfter(calls[c], ret.result) ELSE hist
    /\ UNCHANGED <<base_url, headers, new_args>>

\* send_async returns an error (`?`): the request was lost on its way, or
\* the server's answer was; the error is the call's result.
TransportError(c, D) ==
    /\ calls[c].pc = "sent"
    /\ calls' = [calls EXCEPT ![c] =
          [@ EXCEPT !.pc = "done", !.result = Err("transport")]]
    /\ \E st \in {store} \cup {r.store : r \in ServerServes(calls[c].request, store)} :
          store' = st
    /\ hist' = IF D.history THEN HistAfter(calls[c], Err("transport")) ELSE hist
    /\ UNCHANGED <<base_url, headers, new_args>>

----------------------------------------------------------------------------
(* Specifications                                                          *)

unwrap_or_default(h) == IF IsSome(h) THEN Unwrap(h) ELSE EmptyMap

\* UnstorageClient::new(base_url, headers), against a server holding nothing
New(url, h) ==
    /\ new_args = [base_url |-> url, headers |-> h]
    /\ base_url = url
    /\ headers = unwrap_or_default(h)
    /\ calls = [c \in Callers |-> Idle]
    /\ store = [k \in AllKeys |-> None]
    /\ hist = [k \in AllKeys |-> NoWrite]

\* Task c calls a method.
Build(c, D) ==
    \/ has_item(c, D)
    \/ get_item(c, D)
    \/ get_item_json(c, D)
    \/ get_item_raw(c, D)
    \/ get_meta(c, D)
    \/ set_item(c, D)
    \/ set_item_raw(c, D)
    \/ set_item_json(c, D)
    \/ remove_item(c, D)
    \/ get_keys(c, D)
    \/ clear(c, D)

Step(c, D) ==
    \/ Build(c, D)
    \/ Respond(c, D)
    \/ TransportError(c, D)

\* Two tasks share the client and call it concurrently: t1 passes
\* transaction options with every call, t2 passes none.
ConcD(c) ==
    [keys |-> AllKeys, bases |-> AllBases,
     topts |-> IF c = "t1"
               THEN {Some(TransactionOptions(Some("Authorization" :> "tx"), Some(0)))}
               ELSE {None},
     strs |-> {<<"7">>}, raws |-> {<<"7">>},
     jsons |-> {JU32(7)}, types |-> {"u32"}, history |-> FALSE]

Init == New("http://localhost:3000", Some("Authorization" :> "default"))
Next == \E c \in Callers : Step(c, ConcD(c))
Spec == Init /\ [][Next]_vars

\* One task awaits each call before it makes the next, as the tests do;
\* hist records the writes that returned.
SeqD ==
    [keys |-> AllKeys, bases |-> AllBases,
     topts |-> {None},
     strs |-> {<<"h", "i">>, <<"7">>}, raws |-> {<<"\\xFF">>},
     jsons |-> {JString(<<"a", "\"">>), JF64(TRUE, 0), JF64(FALSE, MaxAge),
                JTestData(<<"A">>, MaxAge), JTupleKeyMap},
     types |-> {"String", "u32", "f64", "TestData"}, history |-> TRUE]

SeqInit == New("http://localhost:3000", None)
SeqNext == \E c \in {"t1"} : Step(c, SeqD)
SeqSpec == SeqInit /\ [][SeqNext]_vars

\* One task calls every method with default and transaction headers that
\* collide, override derived headers, or do not convert.
HeaderDefaults ==
    { None,
      Some("Authorization" :> "default"),
      Some("x-ttl" :> "default"),
      Some("X-Ttl" :> "default"),
      Some("Content-Type" :> "text/plain"),
      Some("Accept" :> "text/html"),
      Some("bad name" :> "default") }
HeaderTx ==
    { None,
      Some("authorization" :> "tx"),
      Some("Authorization" :> "tx"),
      Some("x-ttl" :> "tx"),
      Some("accept" :> "tx"),
      Some("authorization" :> "bad\nvalue") }
HeaderD ==
    [keys |-> AllKeys, bases |-> AllBases,
     topts |-> {None} \cup {Some(TransactionOptions(h, ttl)) :
                               h \in HeaderTx, ttl \in {None, Some(MaxTtl)}},
     strs |-> {<<"7">>}, raws |-> {<<"7">>},
     jsons |-> {JU32(7), JTupleKeyMap}, types |-> {"u32"}, history |-> FALSE]

HeaderInit == \E h \in HeaderDefaults : New("http://localhost:3000", h)
HeaderNext == \E c \in {"t1"} : Build(c, HeaderD)
HeaderSpec == HeaderInit /\ [][HeaderNext]_vars

----------------------------------------------------------------------------
(* What the claims speak of                                                *)

OnWire(c) == calls[c].sends = 1
Returned_(c) == calls[c].pc = "done"

\* the transaction headers and ttl a call was given
TxHeaders(call) ==
    IF IsSome(call.topts) /\ IsSome(Unwrap(call.topts).headers)
    THEN Unwrap(Unwrap(call.topts).headers)
    ELSE EmptyMap
TxTtl(call) == IF IsSome(call.topts) THEN Unwrap(call.topts).ttl ELSE None

\* the values the entries of map m give the header that is `name` on the wire
ValuesFor(m, name) == {m[k] : k \in {x \in DOMAIN m : HeaderNameFromBytes(x) = name}}

\* the header a method derives by itself
Derived(op, name) ==
    CASE name = "content-type" /\ op \in {"set_item", "set_item_json"} -> {"application/json"}
      [] name = "content-type" /\ op = "set_item_raw" -> {"application/octet-stream"}
      [] name = "accept" /\ op = "get_item_raw" -> {"application/octet-stream"}
      [] OTHER -> {}

\* the response came from the server serving the request, not refusing it
Served(call) == call.status # 0 /\ call.status < 500

IsOkNone(r) == r.tag = "Ok" /\ Len(r.val) = 0
IsOkSome(r, v) == r.tag = "Ok" /\ Len(r.val) = 1 /\ r.val[1] = v

ReadOps == {"get_item", "get_item_json", "get_item_raw", "get_meta", "get_keys"}

----------------------------------------------------------------------------
\* C1: String round-trip.  When set_item(k, v) has returned Ok(()) and the
\* next call on k is get_item(k) (answered without a transport failure and
\* served by the server), get_item returns Ok(Some(v)).
C1_StringRoundTrip ==
    \A c \in Callers :
      LET call == calls[c] IN
      (/\ Returned_(c) /\ call.op = "get_item" /\ Served(call)
       /\ call.result.tag = "Ok"
       /\ hist[call.key].kind = "set_item")
      => IsOkSome(call.result, hist[call.key].arg)

\* C2: JSON round-trip.  When set_item_json(k, r) has returned Ok(()) and
\* the next call on k is get_item_json::<T>(k) for r's type T (served by the
\* server, no transport failure), it returns Ok(Some(r)): never Ok(None),
\* never an error.
C2_JsonRoundTrip ==
    \A c \in Callers :
      LET call == calls[c] IN
      (/\ Returned_(c) /\ call.op = "get_item_json" /\ Served(call)
       /\ ~(call.result.tag = "Err" /\ call.result.val = "transport")
       /\ hist[call.key].kind = "set_item_json"
       /\ hist[call.key].arg.t = call.arg)
      => IsOkSome(call.result, hist[call.key].arg)

\* C3: Not found is a value.  A read method that receives a non-2xx status
\* returns Ok(None) without reading the body, has_item returns Ok(false);
\* a read method returns Err only for a header that does not convert, a
\* transport failure, or a 2xx body that does not decode; get_item on a key
\* that was never written returns Ok(None).
C3_NotFoundIsAValue ==
    \A c \in Callers :
      LET call == calls[c] IN
      Returned_(c) =>
        /\ (call.op \in ReadOps /\ call.status # 0 /\ ~is_success(call.status))
              => (IsOkNone(call.result) /\ ~call.body_read)
        /\ (call.op = "has_item" /\ call.status # 0 /\ ~is_success(call.status))
              => (call.result.tag = "Ok" /\ call.result.val = FALSE)
        /\ (call.op \in ReadOps \cup {"has_item"} /\ call.result.tag = "Err")
              => \/ call.result.val \in {"header", "transport"}
                 \/ (call.result.val = "decode" /\ is_success(call.status)
                     /\ call.body_read)
        /\ (call.op = "get_item" /\ hist[call.key].kind = "none"
            /\ call.result.tag = "Ok")
              => IsOkNone(call.result)

C3_Witness ==
    \E c \in Callers :
      /\ Returned_(c) /\ calls[c].op = "get_item" /\ calls[c].status = 404
      /\ hist[calls[c].key].kind = "none" /\ IsOkNone(calls[c].result)

\* C4: Header precedence.  When the default map and the transaction map
\* both set a header (names that differ only in letter case are one
\* header), the request carries the transaction's value.  (The header a
\* method derives itself, accept of get_item_raw, is left to C9.)
C4_HeaderPrecedence ==
    \A c \in Callers :
      LET call == calls[c]
          tx == TxHeaders(call)
      IN  OnWire(c) =>
            \A dk \in DOMAIN headers, tk \in DOMAIN tx :
              (/\ HeaderNameFromBytes(dk) = HeaderNameFromBytes(tk)
               /\ Derived(call.op, HeaderNameFromBytes(tk)) = {})
              => call.request.headers[HeaderNameFromBytes(tk)] = tx[tk]

\* C5: TTL propagation.  A call with ttl Some(n) sends
\* x-ttl = the decimal string of n, whatever x-ttl entries the default map
\* or the transaction headers hold; a call with ttl None adds no x-ttl.
C5_TtlPropagation ==
    \A c \in Callers :
      LET call == calls[c]
          ttl == TxTtl(call)
          wire == call.request.headers
      IN  OnWire(c) =>
            IF IsSome(ttl)
            THEN "x-ttl" \in DOMAIN wire /\ wire["x-ttl"] = u64_to_string(Unwrap(ttl))
            ELSE "x-ttl" \in DOMAIN wire
                    => wire["x-ttl"] \in ValuesFor(headers, "x-ttl")
                                          \cup ValuesFor(TxHeaders(call), "x-ttl")

\* C6: Existence.  With only set_item and remove_item writing key k,
\* has_item(k) (served by the server) returns Ok(true) exactly when the
\* last of them to return was a set_item that returned Ok(()).
C6_Existence ==
    \A c \in Callers :
      LET call == calls[c] IN
      (/\ Returned_(c) /\ call.op = "has_item" /\ Served(call)
       /\ call.result.tag = "Ok"
       /\ hist[call.key].kind \in {"none", "set_item", "remove_item"})
      => (call.result.val = TRUE <=> hist[call.key].kind = "set_item")

\* C7: Removal.  Once remove_item(k) has returned Ok(()), and until the
\* next write to k, has_item(k) returns Ok(false) and get_item(k) returns
\* Ok(None) (for calls the server served).
C7_Removal ==
    \A c \in Callers :
      LET call == calls[c] IN
      (/\ Returned_(c) /\ call.op \in {"has_item", "get_item"}
       /\ Served(call) /\ call.result.tag = "Ok"
       /\ hist[call.key].kind = "remove_item")
      => /\ call.op = "has_item" => call.result.val = FALSE
         /\ call.op = "get_item" => IsOkNone(call.result)

\* C8: Configuration errors precede the wire.  When an effective header of
\* a call (a transaction header, or a default header that neither the
\* transaction nor the ttl replaces) has a name or a value that does not
\* convert, the call returns an error and sends no request; so does
\* set_item_json for a value that does not serialize.
C8_ConfigErrorsPrecedeWire ==
    \A c \in Callers :
      LET call == calls[c]
          tx == TxHeaders(call)
          bad(m, k) == \/ HeaderNameFromBytes(k) = InvalidHeader
                       \/ HeaderValueParse(m[k]) = InvalidHeader
          replaced(k) == \/ k \in DOMAIN tx
                         \/ (k = "x-ttl" /\ IsSome(TxTtl(call)))
                         \/ (k = "accept" /\ call.op = "get_item_raw")
          invalid == \/ \E k \in DOMAIN tx : bad(tx, k)
                     \/ \E k \in DOMAIN headers : ~replaced(k) /\ bad(headers, k)
          unserializable == call.op = "set_item_json" /\ ~to_string(call.arg).ok
      IN  (calls[c].pc # "idle" /\ (invalid \/ unserializable))
          => /\ call.pc = "done" /\ call.result.tag = "Err"
             /\ call.sends = 0 /\ call.request = NoRequest

C8_Witness ==
    \E c \in Callers :
      /\ calls[c].op = "get_item_raw" /\ Returned_(c)
      /\ \E k \in DOMAIN TxHeaders(calls[c]) :
            HeaderValueParse(TxHeaders(calls[c])[k]) = InvalidHeader
      /\ calls[c].result = Err("header") /\ calls[c].sends = 0

\* C9: Derived content headers.  The request of set_item and set_item_json
\* carries Content-Type: application/json, that of set_item_raw
\* Content-Type: application/octet-stream, that of get_item_raw
\* Accept: application/octet-stream, whatever the caller's maps hold.
C9_DerivedContentHeaders ==
    \A c \in Callers :
      LET call == calls[c] IN
      OnWire(c) =>
        \A name \in {"content-type", "accept"} :
          Derived(call.op, name) # {}
            => /\ name \in DOMAIN call.request.headers
               /\ call.request.headers[name] \in Derived(call.op, name)

\* C10: Statelessness.  The client's base_url and default headers stay the
\* values given to new(); every header of a request comes from those
\* defaults, from the call's own transaction headers or ttl, or is the one
\* the method derives; a call sends at most one request, and a call that
\* returned a transport error sent exactly one.
C10_Stateless ==
    /\ base_url = new_args.base_url
    /\ headers = unwrap_or_default(new_args.headers)
    /\ \A c \in Callers :
         LET call == calls[c]
             wire == call.request.headers
         IN  /\ call.sends <= 1
             /\ (call.result.tag = "Err" /\ call.result.val = "transport")
                   => call.sends = 1
             /\ \A name \in DOMAIN wire :
                   wire[name] \in
                       ValuesFor(unwrap_or_default(new_args.headers), name)
                       \cup ValuesFor(TxHeaders(call), name)
                       \cup (IF name = "x-ttl" /\ IsSome(TxTtl(call))
                             THEN {u64_to_string(Unwrap(TxTtl(call)))} ELSE {})
                       \cup Derived(call.op, name)

\* t1's call with transaction headers and a ttl is in flight or has
\* returned while t2's request, which supplied none, carries only the
\* default.
C10_Witness ==
    /\ calls["t1"].pc = "done" /\ calls["t1"].sends = 1
    /\ calls["t1"].request.headers = ("authorization" :> "tx") @@ ("x-ttl" :> "0")
    /\ calls["t2"].pc = "sent"
    /\ calls["t2"].request.headers = ("authorization" :> "default")

=============================================================================
